---- MODULE Spec2Model ----
(***************************************************************************)
(* Model of kafka-partition-skew-example: the skewed producer              *)
(* (cmd/producer), the balanced producer (cmd/producer_balanced) and the   *)
(* consumer (cmd/consumer).  One run of one of the three programs is a     *)
(* behaviour; `prog` says which program runs.  The goroutines of a program *)
(* are modelled by their program counters, the Kafka transport by the      *)
(* state of its handle and of its input channel.                           *)
(***************************************************************************)
EXTENDS Integers, Sequences, FiniteSets, TLC

\* ------------------------------------------------------------------ bounds
\* ticks the ticker delivers in one run
MaxTicks == 3
\* capacity of the transport's input
BufCap == 1
\* partitions assigned to the consumer
NumPartitions == 2
\* records the broker delivers on one partition
MaxOffset == 2
\* largest number of the non-VIP identifier space (r.Intn(200000))
MaxPlayer == 2
\* records that the sessions of one run deliver a second time, in total
MaxRewind == 1

\* ------------------------------------------------- configuration (inputs)
Programs == {"producer", "balanced", "consumer"}
IsProducer(p) == p \in {"producer", "balanced"}

\* --rate: the default and the values the code does not guard against
Rates == {-1, 0, 400, 2000000000}
\* --skew-percent
SkewPercents == {0, 95, 100}
\* --shards
ShardCounts == {-1, 0, 2}

\* the sampling interval of the skew log
SampleEvery == 500

\* the offset the consumer group resumes every partition from: the claims
\* of the model start just below a multiple of the sampling interval
FirstOffset == SampleEvery - 1

\* time.Second in nanoseconds
Second == 1000000000

\* Go's integer division truncates toward zero; b # 0
GoDiv(a, b) ==
    IF (a >= 0) = (b > 0)
    THEN (IF a >= 0 THEN a ELSE -a) \div (IF b >= 0 THEN b ELSE -b)
    ELSE -((IF a >= 0 THEN a ELSE -a) \div (IF b >= 0 THEN b ELSE -b))

\* time.NewTicker(time.Second / time.Duration(rate)) panics: an integer
\* division by zero, or a non-positive interval
NewTickerPanics(r) == r = 0 \/ GoDiv(Second, r) <= 0

\* values of r.Intn(100) on both sides of every threshold the code compares to
Draws100 == {0, 94, 95, 99}

\* r.Intn(n) panics when n <= 0
IntnPanics(n) == n <= 0

\* the values of r.Intn(n), n > 0
Intn(n) == 0..(n - 1)

\* the size of the identifier space, r.Intn(200000)
IdSpace == 200000

\* the identifier numbers the model draws
PlayerDraws == {k \in 0..MaxPlayer : k \in Intn(IdSpace)}

\* fmt.Sprintf("player-%06d", n)
PlayerID(n) == <<"player-", n>>

\* "player-000001", the VIP hot key
VIP == PlayerID(1)

\* key := playerID
SkewedKey(playerID) == playerID

\* fmt.Sprintf("%s#shard=%d", ev.PlayerID, shard)
ShardedKey(playerID, shard) == playerID \o <<"#shard=", shard>>

\* a comparison that also takes the VIP branch when the draw equals skewPercent
SkewedVipInclusive(d, sp) == d <= sp

\* the skewed producer takes the VIP branch: r.Intn(100) < skewPercent
SkewedVip(d, sp) == d < sp

\* the balanced producer keeps the VIP: not (r.Intn(100) >= 95)
BalancedVip(d) == ~(d >= 95)

\* if r.Intn(100) < skewPercent { playerID = "player-000001" }
SkewedPlayer(n, d, sp) == IF SkewedVip(d, sp) THEN VIP ELSE PlayerID(n)

\* playerID := "player-000001"; if r.Intn(100) >= 95 { playerID = Sprintf(...) }
BalancedPlayer(n, d) == IF BalancedVip(d) THEN VIP ELSE PlayerID(n)

VARIABLES
    prog,         \* which program runs
    rate,         \* --rate
    skewPercent,  \* --skew-percent (skewed producer)
    shards,       \* --shards (balanced producer)
    mainPc,       \* position of run/main
    runErr,       \* run returned a non-nil error
    panicking,    \* the main goroutine is unwinding a panic
    exit,         \* exit status of the process, -1 while it runs
    tstate,       \* transport handle: "none", "open", "closing", "closed"
    closeCalls,   \* invocations of Close on the transport handle
    input,        \* records in the transport's input
    ticker,       \* "none", "running", "stopped"
    tickerC,      \* ticks buffered in ticker.C (capacity 1)
    ticks,        \* ticks delivered so far
    notified,     \* signal.Notify has installed the handler
    shutdownCh,   \* signals buffered in the shutdown channel (capacity 1)
    sigTaken,     \* run has received the termination signal
    timer,        \* grace timer: "none", "running", "fired", "cancelled"
    genPc,        \* generation goroutine: "none", "waitTick", "select", "blocked"
    i,            \* the generation goroutine's sequence counter
    msg,          \* the record built on the current tick
    lastSend,     \* outcome of the last send attempt
    acceptedIds,  \* ids of the records the input accepted, in order
    closerPc,     \* closer goroutine: "none", "close", "inClose", "done"
    doneCh,       \* the done channel is closed
    outcome,      \* what run logged about the shutdown
    consPc,       \* consume goroutine: "none", "consume", "inConsume", "send"
    consRet,      \* what client.Consume returned: "nil" or "err"
    consumeErrors,\* the consumeErrors channel (capacity 1)
    session,      \* consumer-group session: "none", "active", "ending"
    hpc,          \* per partition, position of ConsumeClaim
    cur,          \* per partition, offset of the record in hand
    nextOff,      \* per partition, offset of the next record of the claim
    received,     \* per partition, offsets received, in order
    worked,       \* per partition, offsets whose simulated work completed
    sampled,      \* per partition, offsets logged for skew visibility
    marked        \* per partition, offsets passed to MarkMessage, in order

prodVars == <<ticker, tickerC, ticks, genPc, i, msg, lastSend, acceptedIds, closerPc, doneCh, input>>
procVars == <<mainPc, runErr, panicking, exit>>
sigVars == <<notified, shutdownCh, sigTaken>>
cfgVars == <<prog, rate, skewPercent, shards>>
consVars == <<consPc, consRet, consumeErrors, session>>
claimVars == <<hpc, cur, nextOff, received, worked, sampled, marked>>
vars == <<cfgVars, procVars, sigVars, prodVars, consVars, claimVars,
          tstate, closeCalls, timer, outcome>>

Partitions == 0..(NumPartitions - 1)

\* no record in hand; the field vip of a record tells whether the VIP branch
\* was taken when it was built
NoMsg == [id |-> -1, player |-> <<>>, key |-> <<>>, vip |-> FALSE]

Running == exit = -1

Init ==
    /\ prog \in Programs
    /\ rate \in (IF IsProducer(prog) THEN Rates ELSE {0})
    /\ skewPercent \in (IF prog = "producer" THEN SkewPercents ELSE {0})
    /\ shards \in (IF prog = "balanced" THEN ShardCounts ELSE {0})
    /\ mainPc = "start"
    /\ runErr = FALSE
    /\ panicking = FALSE
    /\ exit = -1
    /\ tstate = "none"
    /\ closeCalls = 0
    /\ input = <<>>
    /\ ticker = "none"
    /\ tickerC = 0
    /\ ticks = 0
    /\ notified = FALSE
    /\ shutdownCh = 0
    /\ sigTaken = FALSE
    /\ timer = "none"
    /\ genPc = "none"
    /\ i = 0
    /\ msg = NoMsg
    /\ lastSend = "none"
    /\ acceptedIds = <<>>
    /\ closerPc = "none"
    /\ doneCh = FALSE
    /\ outcome = "none"
    /\ consPc = "none"
    /\ consRet = "nil"
    /\ consumeErrors = <<>>
    /\ session = "none"
    /\ hpc = [p \in Partitions |-> "none"]
    /\ cur = [p \in Partitions |-> -1]
    /\ nextOff = [p \in Partitions |-> FirstOffset]
    /\ received = [p \in Partitions |-> <<>>]
    /\ worked = [p \in Partitions |-> <<>>]
    /\ sampled = [p \in Partitions |-> <<>>]
    /\ marked = [p \in Partitions |-> <<>>]

\* --------------------------------------------------------- the transport
\* Close() on the handle: the first call starts the shutdown of the transport
CloseInvoked == IF tstate = "open" THEN "closing" ELSE tstate

\* the transport's workers take a record from the input
TransportDrain ==
    /\ Running
    /\ tstate \in {"open", "closing"}
    /\ input # <<>>
    /\ input' = Tail(input)
    /\ UNCHANGED <<cfgVars, consVars, claimVars, procVars, sigVars, tstate, closeCalls, timer, outcome,
                   ticker, tickerC, ticks, genPc, i, msg, lastSend, acceptedIds, closerPc, doneCh>>

\* the transport has flushed and closes its channels: pending Close calls return
TransportClosed ==
    /\ Running
    /\ tstate = "closing"
    /\ input = <<>>
    /\ tstate' = "closed"
    /\ UNCHANGED <<cfgVars, consVars, claimVars, procVars, sigVars, prodVars, closeCalls, timer, outcome>>

\* ------------------------------------------------------- the environment
\* SIGINT/SIGTERM, any number of times: buffered in the shutdown channel
\* (capacity 1), dropped when it is full
Signal ==
    /\ Running
    /\ notified
    /\ shutdownCh' = (IF shutdownCh < 1 THEN shutdownCh + 1 ELSE shutdownCh)
    /\ UNCHANGED <<cfgVars, consVars, claimVars, procVars, notified, sigTaken, prodVars, tstate,
                   closeCalls, timer, outcome>>

\* the ticker puts a tick in ticker.C, dropped when the channel is full
TickerFire ==
    /\ Running
    /\ ticker = "running"
    /\ ticks < MaxTicks
    /\ tickerC = 0
    /\ tickerC' = 1
    /\ ticks' = ticks + 1
    /\ UNCHANGED <<cfgVars, consVars, claimVars, procVars, sigVars, tstate, closeCalls, timer, outcome,
                   ticker, genPc, i, msg, lastSend, acceptedIds, closerPc, doneCh, input>>

\* the 5 s of context.WithTimeout elapse
TimerFire ==
    /\ Running
    /\ timer = "running"
    /\ timer' = "fired"
    /\ UNCHANGED <<cfgVars, consVars, claimVars, procVars, sigVars, prodVars, tstate, closeCalls, outcome>>

\* ------------------------------------------------------ run (producers)
\* sarama.NewAsyncProducer: on an error run returns it, wrapped
NewAsyncProducer ==
    /\ Running
    /\ IsProducer(prog)
    /\ mainPc = "start"
    /\ \/ /\ tstate' = "open"
          /\ mainPc' = "newTicker"
          /\ UNCHANGED runErr
       \/ /\ runErr' = TRUE
          /\ mainPc' = "returned"
          /\ UNCHANGED tstate
    /\ UNCHANGED <<cfgVars, consVars, claimVars, panicking, exit, sigVars, prodVars,
                   closeCalls, timer, outcome>>

\* time.NewTicker(time.Second / time.Duration(rate)); a panic unwinds run
\* through the one defer registered so far that touches the transport
NewTicker ==
    /\ Running
    /\ mainPc = "newTicker"
    /\ IF NewTickerPanics(rate)
       THEN /\ panicking' = TRUE
            /\ mainPc' = "deferClose"
            /\ UNCHANGED ticker
       ELSE /\ ticker' = "running"
            /\ mainPc' = "notify"
            /\ UNCHANGED panicking
    /\ UNCHANGED <<cfgVars, consVars, claimVars, runErr, exit, sigVars, tstate, closeCalls,
                   timer, outcome, tickerC, ticks, genPc, i, msg, lastSend, acceptedIds, closerPc,
                   doneCh, input>>

\* signal.Notify(shutdown, ...) and the go statement of the generation goroutine
StartGeneration ==
    /\ Running
    /\ IsProducer(prog)
    /\ mainPc = "notify"
    /\ notified' = TRUE
    /\ genPc' = "waitTick"
    /\ mainPc' = "waitSig"
    /\ UNCHANGED <<cfgVars, consVars, claimVars, runErr, panicking, exit, shutdownCh,
                   sigTaken, tstate, closeCalls, timer, outcome, ticker,
                   tickerC, ticks, i, msg, lastSend, acceptedIds, closerPc, doneCh, input>>

\* the record the skewed producer builds on a tick
SkewedMsg(n, d) ==
    [id |-> i,
     player |-> SkewedPlayer(n, d, skewPercent),
     key |-> SkewedKey(SkewedPlayer(n, d, skewPercent)),
     vip |-> SkewedVip(d, skewPercent)]

\* a record whose shard suffix counts from 1
BalancedMsgOneBased(n, d, shard) ==
    [id |-> i,
     player |-> BalancedPlayer(n, d),
     key |-> ShardedKey(BalancedPlayer(n, d), shard + 1),
     vip |-> BalancedVip(d)]

\* the record the balanced producer builds on a tick
BalancedMsg(n, d, shard) ==
    [id |-> i,
     player |-> BalancedPlayer(n, d),
     key |-> ShardedKey(BalancedPlayer(n, d), shard),
     vip |-> BalancedVip(d)]

\* <-ticker.C, then the event, its key and the message are built;
\* r.Intn(shards) panics in the goroutine when shards <= 0
GenTick ==
    /\ Running
    /\ genPc = "waitTick"
    /\ tickerC = 1
    /\ tickerC' = 0
    /\ IF prog = "balanced" /\ IntnPanics(shards)
       THEN /\ exit' = 2
            /\ UNCHANGED <<msg, genPc>>
       ELSE /\ \E n \in PlayerDraws, d \in Draws100 :
                 IF prog = "balanced"
                 THEN \E shard \in Intn(shards) : msg' = BalancedMsg(n, d, shard)
                 ELSE msg' = SkewedMsg(n, d)
            /\ genPc' = "select"
            /\ UNCHANGED exit
    /\ UNCHANGED <<cfgVars, consVars, claimVars, mainPc, runErr, panicking, sigVars, tstate,
                   closeCalls, timer, outcome, ticker, ticks, i, lastSend, acceptedIds, closerPc,
                   doneCh, input>>

\* a send that waits for room in the input instead of dropping
TrySendBlocking ==
    /\ Running
    /\ genPc \in {"select", "blocked"}
    /\ IF tstate = "closed"
       THEN /\ exit' = 2
            /\ UNCHANGED <<input, i, lastSend, acceptedIds, genPc, msg>>
       ELSE /\ UNCHANGED exit
            /\ IF Len(input) < BufCap
               THEN /\ input' = Append(input, msg)
                    /\ acceptedIds' = Append(acceptedIds, msg.id)
                    /\ i' = i + 1
                    /\ lastSend' = "accepted"
                    /\ genPc' = "waitTick"
                    /\ msg' = NoMsg
               ELSE /\ genPc = "select"
                    /\ genPc' = "blocked"
                    /\ UNCHANGED <<input, i, lastSend, acceptedIds, msg>>
    /\ UNCHANGED <<cfgVars, consVars, claimVars, mainPc, runErr, panicking, sigVars, tstate,
                   closeCalls, timer, outcome, ticker, tickerC, ticks, closerPc, doneCh>>

\* a send that advances the sequence counter whether or not the record is accepted
TrySendCountsDrops ==
    /\ Running
    /\ genPc = "select"
    /\ IF tstate = "closed"
       THEN /\ exit' = 2
            /\ UNCHANGED <<input, i, lastSend, acceptedIds, genPc, msg>>
       ELSE /\ UNCHANGED exit
            /\ genPc' = "waitTick"
            /\ msg' = NoMsg
            /\ i' = i + 1
            /\ IF Len(input) < BufCap
               THEN /\ input' = Append(input, msg)
                    /\ acceptedIds' = Append(acceptedIds, msg.id)
                    /\ lastSend' = "accepted"
               ELSE /\ lastSend' = "dropped"
                    /\ UNCHANGED <<input, acceptedIds>>
    /\ UNCHANGED <<cfgVars, consVars, claimVars, mainPc, runErr, panicking, sigVars, tstate,
                   closeCalls, timer, outcome, ticker, tickerC, ticks, closerPc, doneCh>>

\* a send that makes room on a full input by discarding its oldest record
TrySendEvicting ==
    /\ Running
    /\ genPc = "select"
    /\ IF tstate = "closed"
       THEN /\ exit' = 2
            /\ UNCHANGED <<input, i, lastSend, acceptedIds, genPc, msg>>
       ELSE /\ UNCHANGED exit
            /\ genPc' = "waitTick"
            /\ msg' = NoMsg
            /\ i' = i + 1
            /\ acceptedIds' = Append(acceptedIds, msg.id)
            /\ lastSend' = "accepted"
            /\ input' = (IF Len(input) < BufCap
                         THEN Append(input, msg)
                         ELSE Append(Tail(input), msg))
    /\ UNCHANGED <<cfgVars, consVars, claimVars, mainPc, runErr, panicking, sigVars, tstate,
                   closeCalls, timer, outcome, ticker, tickerC, ticks, closerPc, doneCh>>

\* select { case asyncProducer.Input() <- msg: i++  default: }
\* a send on the input the transport has closed panics
TrySend ==
    /\ Running
    /\ genPc = "select"
    /\ IF tstate = "closed"
       THEN /\ exit' = 2
            /\ UNCHANGED <<input, i, lastSend, acceptedIds, genPc, msg>>
       ELSE /\ UNCHANGED exit
            /\ genPc' = "waitTick"
            /\ msg' = NoMsg
            /\ IF Len(input) < BufCap
               THEN /\ input' = Append(input, msg)
                    /\ acceptedIds' = Append(acceptedIds, msg.id)
                    /\ i' = i + 1
                    /\ lastSend' = "accepted"
               ELSE /\ lastSend' = "dropped"
                    /\ UNCHANGED <<input, i, acceptedIds>>
    /\ UNCHANGED <<cfgVars, consVars, claimVars, mainPc, runErr, panicking, sigVars, tstate,
                   closeCalls, timer, outcome, ticker, tickerC, ticks, closerPc, doneCh>>

\* sig := <-shutdown
RecvShutdown ==
    /\ Running
    /\ mainPc = "waitSig"
    /\ shutdownCh > 0
    /\ shutdownCh' = shutdownCh - 1
    /\ sigTaken' = TRUE
    /\ mainPc' = "startCloser"
    /\ UNCHANGED <<cfgVars, consVars, claimVars, runErr, panicking, exit, notified, prodVars, tstate, closeCalls, timer, outcome>>

\* context.WithTimeout(…, 5*time.Second), done := make(chan struct{}) and
\* the go statement of the closer goroutine
StartCloser ==
    /\ Running
    /\ mainPc = "startCloser"
    /\ timer' = "running"
    /\ closerPc' = "close"
    /\ mainPc' = "select"
    /\ UNCHANGED <<cfgVars, consVars, claimVars, runErr, panicking, exit, sigVars, tstate,
                   closeCalls, outcome, ticker, tickerC, ticks, genPc, i, msg, lastSend, acceptedIds,
                   doneCh, input>>

\* the closer goroutine calls asyncProducer.Close()
CloserClose ==
    /\ Running
    /\ closerPc = "close"
    /\ closeCalls' = closeCalls + 1
    /\ tstate' = CloseInvoked
    /\ closerPc' = "inClose"
    /\ UNCHANGED <<cfgVars, consVars, claimVars, procVars, sigVars, timer, outcome, ticker,
                   tickerC, ticks, genPc, i, msg, lastSend, acceptedIds, doneCh, input>>

\* its Close() returns; close(done)
CloserDone ==
    /\ Running
    /\ closerPc = "inClose"
    /\ tstate = "closed"
    /\ doneCh' = TRUE
    /\ closerPc' = "done"
    /\ UNCHANGED <<cfgVars, consVars, claimVars, procVars, sigVars, tstate, closeCalls, timer,
                   outcome, ticker, tickerC, ticks, genPc, i, msg, lastSend, acceptedIds, input>>

\* select: case <-done, "producer closed cleanly"
SelectDone ==
    /\ Running
    /\ IsProducer(prog)
    /\ mainPc = "select"
    /\ doneCh
    /\ outcome' = "clean"
    /\ mainPc' = "deferCancel"
    /\ UNCHANGED <<cfgVars, consVars, claimVars, runErr, panicking, exit, sigVars, prodVars,
                   tstate, closeCalls, timer>>

\* select: case <-shutdownCtx.Done(), "producer close timed out"
SelectTimeout ==
    /\ Running
    /\ IsProducer(prog)
    /\ mainPc = "select"
    /\ timer = "fired"
    /\ outcome' = "timeout"
    /\ mainPc' = "deferCancel"
    /\ UNCHANGED <<cfgVars, consVars, claimVars, runErr, panicking, exit, sigVars, prodVars,
                   tstate, closeCalls, timer>>

\* return nil runs the defers, last registered first: defer cancel()
DeferCancel ==
    /\ Running
    /\ mainPc = "deferCancel"
    /\ timer' = (IF timer = "running" THEN "cancelled" ELSE timer)
    /\ mainPc' = (IF IsProducer(prog) THEN "deferStop" ELSE "deferClose")
    /\ UNCHANGED <<cfgVars, consVars, claimVars, runErr, panicking, exit, sigVars, prodVars,
                   tstate, closeCalls, outcome>>

\* defer ticker.Stop()
DeferTickerStop ==
    /\ Running
    /\ mainPc = "deferStop"
    /\ ticker' = "stopped"
    /\ mainPc' = "deferClose"
    /\ UNCHANGED <<cfgVars, consVars, claimVars, runErr, panicking, exit, sigVars, tstate,
                   closeCalls, timer, outcome, tickerC, ticks, genPc, i, msg, lastSend, acceptedIds,
                   closerPc, doneCh, input>>

\* defer asyncProducer.Close() / defer client.Close(): the call is made
DeferClose ==
    /\ Running
    /\ mainPc = "deferClose"
    /\ closeCalls' = closeCalls + 1
    /\ tstate' = CloseInvoked
    /\ mainPc' = "inDeferClose"
    /\ UNCHANGED <<cfgVars, consVars, claimVars, runErr, panicking, exit, sigVars, prodVars,
                   timer, outcome>>

\* the deferred Close() returns once the transport is closed; run returns,
\* or the panic that unwound run ends the process with status 2
DeferCloseReturn ==
    /\ Running
    /\ mainPc = "inDeferClose"
    /\ tstate = "closed"
    /\ IF panicking
       THEN exit' = 2 /\ UNCHANGED mainPc
       ELSE mainPc' = "returned" /\ UNCHANGED exit
    /\ UNCHANGED <<cfgVars, consVars, claimVars, runErr, panicking, sigVars, prodVars, tstate,
                   closeCalls, timer, outcome>>

\* a main that ends with status 0 whatever run returned
MainExitIgnoresErr ==
    /\ Running
    /\ mainPc = "returned"
    /\ exit' = 0
    /\ UNCHANGED <<cfgVars, consVars, claimVars, mainPc, runErr, panicking, sigVars, prodVars,
                   tstate, closeCalls, timer, outcome>>

\* main: os.Exit(1) when run returned an error, else the process ends with 0
MainExit ==
    /\ Running
    /\ mainPc = "returned"
    /\ exit' = (IF runErr THEN 1 ELSE 0)
    /\ UNCHANGED <<cfgVars, consVars, claimVars, mainPc, runErr, panicking, sigVars, prodVars,
                   tstate, closeCalls, timer, outcome>>

\* ------------------------------------------------------- run (consumer)
\* sarama.NewConsumerGroup: on an error run returns it, wrapped
NewConsumerGroup ==
    /\ Running
    /\ prog = "consumer"
    /\ mainPc = "start"
    /\ \/ /\ tstate' = "open"
          /\ mainPc' = "notify"
          /\ UNCHANGED runErr
       \/ /\ runErr' = TRUE
          /\ mainPc' = "returned"
          /\ UNCHANGED tstate
    /\ UNCHANGED <<cfgVars, consVars, claimVars, panicking, exit, sigVars, prodVars,
                   closeCalls, timer, outcome>>

\* signal.Notify, consumeErrors := make(chan error, 1) and the go statement
\* of the goroutine that loops on client.Consume
StartConsume ==
    /\ Running
    /\ prog = "consumer"
    /\ mainPc = "notify"
    /\ notified' = TRUE
    /\ consPc' = "consume"
    /\ mainPc' = "select"
    /\ UNCHANGED <<cfgVars, consRet, consumeErrors, session, claimVars, runErr, panicking,
                   exit, shutdownCh, sigTaken, prodVars, tstate, closeCalls,
                   timer, outcome>>

\* client.Consume(ctx, topics, handler) is called: on a closed client or a
\* failed join it returns an error at once, else a session starts and
\* ConsumeClaim runs for every assigned partition
ConsumeCall ==
    /\ Running
    /\ consPc = "consume"
    /\ \/ /\ tstate = "open"
          /\ session' = "active"
          /\ hpc' = [p \in Partitions |-> "recv"]
          /\ consPc' = "inConsume"
          /\ UNCHANGED consRet
       \/ /\ consRet' = "err"
          /\ consPc' = "send"
          /\ UNCHANGED <<session, hpc>>
    /\ UNCHANGED <<cfgVars, consumeErrors, cur, nextOff, received, worked, sampled, marked,
                   procVars, sigVars, prodVars, tstate, closeCalls, timer, outcome>>

\* the session ends (rebalance, fatal error or Close): claim.Messages() is closed
SessionEnd ==
    /\ Running
    /\ session = "active"
    /\ session' = "ending"
    /\ UNCHANGED <<cfgVars, consPc, consRet, consumeErrors, claimVars, procVars, sigVars,
                   prodVars, tstate, closeCalls, timer, outcome>>

\* a receive that acknowledges the record as soon as it is taken
ClaimRecvAck(p) ==
    /\ Running
    /\ hpc[p] = "recv"
    /\ \/ /\ session = "active"
          /\ nextOff[p] < FirstOffset + MaxOffset
          /\ cur' = [cur EXCEPT ![p] = nextOff[p]]
          /\ nextOff' = [nextOff EXCEPT ![p] = @ + 1]
          /\ received' = [received EXCEPT ![p] = Append(@, nextOff[p])]
          /\ marked' = [marked EXCEPT ![p] = Append(@, nextOff[p])]
          /\ hpc' = [hpc EXCEPT ![p] = "work"]
       \/ /\ session = "ending"
          /\ hpc' = [hpc EXCEPT ![p] = "returned"]
          /\ UNCHANGED <<cur, nextOff, received, marked>>
    /\ UNCHANGED <<cfgVars, consVars, worked, sampled, procVars, sigVars, prodVars,
                   tstate, closeCalls, timer, outcome>>

\* for msg := range claim.Messages(): the next record of the claim, in
\* offset order, or the end of the loop once the channel is closed
ClaimRecv(p) ==
    /\ Running
    /\ hpc[p] = "recv"
    /\ \/ /\ session = "active"
          /\ nextOff[p] < FirstOffset + MaxOffset
          /\ cur' = [cur EXCEPT ![p] = nextOff[p]]
          /\ nextOff' = [nextOff EXCEPT ![p] = @ + 1]
          /\ received' = [received EXCEPT ![p] = Append(@, nextOff[p])]
          /\ hpc' = [hpc EXCEPT ![p] = "work"]
       \/ /\ session = "ending"
          /\ hpc' = [hpc EXCEPT ![p] = "returned"]
          /\ UNCHANGED <<cur, nextOff, received>>
    /\ UNCHANGED <<cfgVars, consVars, worked, sampled, marked, procVars, sigVars, prodVars,
                   tstate, closeCalls, timer, outcome>>

\* a work step that hands the record to a helper and takes the next one
ClaimWorkDetached(p) ==
    /\ Running
    /\ hpc[p] = "work"
    /\ worked' = [worked EXCEPT ![p] = Append(@, cur[p])]
    /\ hpc' = [hpc EXCEPT ![p] = "recv"]
    /\ UNCHANGED <<cfgVars, consVars, cur, nextOff, received, sampled, marked, procVars,
                   sigVars, prodVars, tstate, closeCalls, timer, outcome>>

\* time.Sleep(h.work) returns
ClaimWork(p) ==
    /\ Running
    /\ hpc[p] = "work"
    /\ worked' = [worked EXCEPT ![p] = Append(@, cur[p])]
    /\ hpc' = [hpc EXCEPT ![p] = "sample"]
    /\ UNCHANGED <<cfgVars, consVars, cur, nextOff, received, sampled, marked, procVars,
                   sigVars, prodVars, tstate, closeCalls, timer, outcome>>

\* msg.Offset%500 == 0
IsSampleOffset(o) == o % SampleEvery = 0

\* a log statement outside the test of the offset: every record is logged
ClaimSampleAll(p) ==
    /\ Running
    /\ hpc[p] = "sample"
    /\ sampled' = [sampled EXCEPT ![p] = Append(@, cur[p])]
    /\ hpc' = [hpc EXCEPT ![p] = "mark"]
    /\ UNCHANGED <<cfgVars, consVars, cur, nextOff, received, worked, marked, procVars,
                   sigVars, prodVars, tstate, closeCalls, timer, outcome>>

\* if msg.Offset%500 == 0 { h.log.Info("message", ...) }
ClaimSample(p) ==
    /\ Running
    /\ hpc[p] = "sample"
    /\ sampled' = [sampled EXCEPT ![p] =
                     IF IsSampleOffset(cur[p]) THEN Append(@, cur[p]) ELSE @]
    /\ hpc' = [hpc EXCEPT ![p] = "mark"]
    /\ UNCHANGED <<cfgVars, consVars, cur, nextOff, received, worked, marked, procVars,
                   sigVars, prodVars, tstate, closeCalls, timer, outcome>>

\* an acknowledgment that remembers the offsets it has acknowledged and skips
\* a record it has seen before
ClaimMarkDedupe(p) ==
    /\ Running
    /\ hpc[p] = "mark"
    /\ marked' = [marked EXCEPT ![p] =
                    IF \E k \in 1..Len(@) : @[k] = cur[p] THEN @ ELSE Append(@, cur[p])]
    /\ hpc' = [hpc EXCEPT ![p] = "recv"]
    /\ UNCHANGED <<cfgVars, consVars, cur, nextOff, received, worked, sampled, procVars,
                   sigVars, prodVars, tstate, closeCalls, timer, outcome>>

\* sess.MarkMessage(msg, "")
ClaimMark(p) ==
    /\ Running
    /\ hpc[p] = "mark"
    /\ marked' = [marked EXCEPT ![p] = Append(@, cur[p])]
    /\ hpc' = [hpc EXCEPT ![p] = "recv"]
    /\ UNCHANGED <<cfgVars, consVars, cur, nextOff, received, worked, sampled, procVars,
                   sigVars, prodVars, tstate, closeCalls, timer, outcome>>

\* client.Consume returns once every ConsumeClaim of the session has returned
ConsumeReturn ==
    /\ Running
    /\ consPc = "inConsume"
    /\ session = "ending"
    /\ \A p \in Partitions : hpc[p] = "returned"
    /\ \E e \in {"nil", "err"} : consRet' = e
    /\ session' = "none"
    /\ consPc' = "send"
    /\ UNCHANGED <<cfgVars, consumeErrors, claimVars, procVars, sigVars, prodVars, tstate,
                   closeCalls, timer, outcome>>

\* consumeErrors <- (what Consume returned): waits while the channel is full
ConsumeErrSend ==
    /\ Running
    /\ consPc = "send"
    /\ Len(consumeErrors) < 1
    /\ consumeErrors' = Append(consumeErrors, consRet)
    /\ consPc' = "consume"
    /\ UNCHANGED <<cfgVars, consRet, session, claimVars, procVars, sigVars, prodVars, tstate,
                   closeCalls, timer, outcome>>

\* select: case err := <-consumeErrors, "consume error"; then return nil
\* (outcome keeps whether the value received was an error or nil)
SelectConsumeErr ==
    /\ Running
    /\ prog = "consumer"
    /\ mainPc = "select"
    /\ consumeErrors # <<>>
    /\ consumeErrors' = Tail(consumeErrors)
    /\ outcome' = (IF Head(consumeErrors) = "err" THEN "consumeError" ELSE "consumeNil")
    /\ mainPc' = "deferClose"
    /\ UNCHANGED <<cfgVars, consPc, consRet, session, claimVars, runErr, panicking, exit,
                   sigVars, prodVars, tstate, closeCalls, timer>>

\* select: case sig := <-shutdown, "shutdown started"; context.WithTimeout
SelectShutdown ==
    /\ Running
    /\ prog = "consumer"
    /\ mainPc = "select"
    /\ shutdownCh > 0
    /\ shutdownCh' = shutdownCh - 1
    /\ sigTaken' = TRUE
    /\ timer' = "running"
    /\ mainPc' = "close"
    /\ UNCHANGED <<cfgVars, consVars, claimVars, runErr, panicking, exit, notified, prodVars, tstate, closeCalls, outcome>>

\* client.Close() is called by run itself
MainClose ==
    /\ Running
    /\ mainPc = "close"
    /\ closeCalls' = closeCalls + 1
    /\ tstate' = CloseInvoked
    /\ mainPc' = "inClose"
    /\ UNCHANGED <<cfgVars, consVars, claimVars, runErr, panicking, exit, sigVars, prodVars,
                   timer, outcome>>

\* client.Close() returns, with or without an error; then return nil
MainCloseReturn ==
    /\ Running
    /\ mainPc = "inClose"
    /\ tstate = "closed"
    /\ \E o \in {"closed", "closeError"} : outcome' = o
    /\ mainPc' = "deferCancel"
    /\ UNCHANGED <<cfgVars, consVars, claimVars, runErr, panicking, exit, sigVars, prodVars,
                   tstate, closeCalls, timer>>

ConsumerNext ==
    \/ NewConsumerGroup \/ StartConsume \/ ConsumeCall \/ SessionEnd
    \/ (\E p \in Partitions : ClaimRecv(p))
    \/ (\E p \in Partitions : ClaimWork(p))
    \/ (\E p \in Partitions : ClaimSample(p))
    \/ (\E p \in Partitions : ClaimMark(p))
    \/ ConsumeReturn \/ ConsumeErrSend
    \/ SelectConsumeErr \/ SelectShutdown \/ MainClose \/ MainCloseReturn

ProducerNext ==
    \/ NewAsyncProducer \/ NewTicker \/ StartGeneration
    \/ GenTick \/ TrySend
    \/ RecvShutdown \/ StartCloser \/ CloserClose \/ CloserDone
    \/ SelectDone \/ SelectTimeout
    \/ DeferTickerStop

SharedNext ==
    \/ TransportDrain \/ TransportClosed \/ Signal \/ TickerFire \/ TimerFire
    \/ DeferCancel \/ DeferClose \/ DeferCloseReturn \/ MainExit

Next == ProducerNext \/ ConsumerNext \/ SharedNext

Spec == Init /\ [][Next]_vars

\* ------------------------------------------- at-least-once redelivery
\* the records of the partitions of S that were or will be delivered again
\* when the partitions resume from next: the deliveries so far, less the
\* distinct offsets below the resume point
RECURSIVE Redelivered(_, _)
Redelivered(next, S) ==
    IF S = {} THEN 0
    ELSE LET p == CHOOSE q \in S : TRUE
         IN  Len(received[p]) - (next[p] - FirstOffset) + Redelivered(next, S \ {p})

\* client.Consume(ctx, topics, handler) when the group has not committed all
\* the offsets that were marked: the new session resumes one partition r
\* records before the next one, and its ConsumeClaim gets those records again
ConsumeCallRedelivering ==
    /\ Running
    /\ consPc = "consume"
    /\ \/ /\ tstate = "open"
          /\ session' = "active"
          /\ hpc' = [p \in Partitions |-> "recv"]
          /\ \E q \in Partitions, r \in 0..MaxRewind :
                LET next == [nextOff EXCEPT ![q] = @ - r]
                IN  /\ next[q] >= FirstOffset
                    /\ Redelivered(next, Partitions) <= MaxRewind
                    /\ nextOff' = next
          /\ consPc' = "inConsume"
          /\ UNCHANGED consRet
       \/ /\ consRet' = "err"
          /\ consPc' = "send"
          /\ UNCHANGED <<session, hpc, nextOff>>
    /\ UNCHANGED <<cfgVars, consumeErrors, cur, received, worked, sampled, marked,
                   procVars, sigVars, prodVars, tstate, closeCalls, timer, outcome>>

\* the consumer from its start until run leaves its select, in the runs that
\* get no termination signal
RedeliveryInit == Init /\ prog = "consumer"

RedeliveryNext ==
    \/ NewConsumerGroup \/ StartConsume \/ ConsumeCallRedelivering \/ SessionEnd
    \/ (\E p \in Partitions : ClaimRecv(p))
    \/ (\E p \in Partitions : ClaimWork(p))
    \/ (\E p \in Partitions : ClaimSample(p))
    \/ (\E p \in Partitions : ClaimMark(p))
    \/ ConsumeReturn \/ ConsumeErrSend \/ SelectConsumeErr

RedeliverySpec == RedeliveryInit /\ [][RedeliveryNext]_vars

\* ------------------------------------------------------------ properties
IsPrefix(a, b) == Len(a) <= Len(b) /\ \A k \in 1..Len(a) : a[k] = b[k]

StrictlyIncreasing(a) == \A k \in 1..(Len(a) - 1) : a[k] < a[k + 1]

InHand(p) == hpc[p] \in {"work", "sample", "mark"}

\* C1: the hand-off of a record on a tick never blocks: the step that leaves
\* the select puts the generation goroutine back at the ticker, and when the
\* input is full that step leaves the input as it is and drops the record
C1_SendNeverBlocks ==
    [][(genPc = "select" /\ genPc' # "select")
          => /\ genPc' = "waitTick"
             /\ (Len(input) >= BufCap => input' = input /\ lastSend' = "dropped")]_vars

\* a record was dropped on a full input and the goroutine waits for a tick
C1_Witness ==
    /\ IsProducer(prog)
    /\ lastSend = "dropped"
    /\ genPc = "waitTick"
    /\ Len(input) = BufCap

\* C2: once run has received the termination signal the generation goroutine
\* takes no tick, builds no record and attempts no send
C2_NoTickAfterShutdown ==
    [][(IsProducer(prog) /\ sigTaken)
          => (genPc' = genPc /\ msg' = msg /\ i' = i /\ lastSend' = lastSend)]_vars

\* C3: Close is invoked at most once on the transport handle, and in a
\* run with a valid shard count nothing panics after the termination signal
C3_CloseAtMostOnce ==
    /\ closeCalls <= 1
    /\ (sigTaken /\ ~(prog = "balanced" /\ IntnPanics(shards)) => exit # 2)

\* C4: once the producer's close has timed out, run is never waiting for a
\* Close call on the transport to complete
C4_TimeoutDoesNotWaitForClose ==
    ~(IsProducer(prog) /\ outcome = "timeout" /\ mainPc = "inDeferClose"
        /\ tstate # "closed")

\* C5: once the consumer's grace timer has fired, run is not waiting for
\* client.Close to complete
C5_ConsumerCloseBounded ==
    ~(prog = "consumer" /\ timer = "fired" /\ mainPc = "inClose" /\ tstate # "closed")

\* C6: when run has returned after a termination signal, every goroutine it
\* started has terminated
C6_NoTaskLeftBehind ==
    (mainPc = "returned" /\ sigTaken)
        => /\ genPc \in {"none", "done"}
           /\ closerPc \in {"none", "done"}
           /\ consPc \in {"none", "done"}

\* C7: a record is passed to MarkMessage only after its simulated work has
\* completed: the acknowledged offsets are a prefix of the worked ones, and
\* the record in hand is not acknowledged
C7_AckAfterWork ==
    \A p \in Partitions :
        /\ IsPrefix(marked[p], worked[p])
        /\ (InHand(p) => Len(marked[p]) < Len(received[p]))

\* a record is in its simulated work while an earlier one is acknowledged
C7_Witness ==
    \E p \in Partitions :
        hpc[p] = "work" /\ Len(marked[p]) >= 1 /\ Len(worked[p]) = Len(marked[p])

\* C8: within a partition the records are worked on and acknowledged one at
\* a time in offset order: the acknowledged offsets are strictly increasing
\* and follow the order of receipt, and a record is received only when every
\* earlier one is acknowledged
C8_PartitionOrder ==
    \A p \in Partitions :
        /\ StrictlyIncreasing(marked[p])
        /\ IsPrefix(marked[p], received[p])
        /\ Len(received[p]) <= Len(marked[p]) + 1
        /\ (Len(received[p]) = Len(marked[p]) + 1 => InHand(p))

\* two partitions are each in the middle of a record, one ahead of the other
C8_Witness ==
    \E p, q \in Partitions :
        /\ p # q
        /\ hpc[p] = "mark" /\ Len(marked[p]) = 1
        /\ hpc[q] = "work" /\ Len(marked[q]) = 0

\* C9: with a rate of zero or less the transport is never connected and
\* nothing panics at the creation of the ticker
C9_BadRateRejectedAtStartup ==
    (IsProducer(prog) /\ rate <= 0) => (tstate = "none" /\ ~panicking)

\* C10: with a shard count of zero or less (and a rate the ticker accepts)
\* the balanced producer connects no transport, starts no generation
\* goroutine and does not panic on a tick
C10_BadShardsRejectedAtStartup ==
    (prog = "balanced" /\ shards <= 0 /\ ~NewTickerPanics(rate))
        => (tstate = "none" /\ genPc = "none" /\ exit # 2)

\* C11: a fatal error returned by the consume call ends the consumer with a
\* non-zero status, and status 0 is produced only by a shutdown that a
\* termination signal requested
C11_ConsumeFaultExitsNonZero ==
    prog = "consumer"
        => /\ (outcome = "consumeError" => exit # 0)
           /\ (exit = 0 => sigTaken)

\* C12: when the creation of the transport handle fails, run has returned
\* the error without a handle, a signal handler, a ticker or a goroutine,
\* without any Close call, and the process ends with status 1
C12_ConnectErrorIsFatal ==
    runErr
        => /\ mainPc = "returned"
           /\ tstate = "none" /\ closeCalls = 0
           /\ ~notified /\ ticker = "none"
           /\ genPc = "none" /\ consPc = "none" /\ closerPc = "none"
           /\ exit \in {-1, 1}

\* the creation failed and the process has ended with status 1
C12_Witness == runErr /\ exit = 1

\* C13: a process that has received the termination signal ends with status
\* 0 whatever the close did (in a run with a valid shard count)
C13_SignalShutdownExitsZero ==
    (sigTaken /\ ~Running /\ ~(prog = "balanced" /\ IntnPanics(shards))) => exit = 0

\* the records in the transport's input
Handed == {input[k] : k \in 1..Len(input)}

\* the records built so far that are in the input or in the goroutine's hand
Built == Handed \cup (IF genPc = "select" THEN {msg} ELSE {})

\* the routing keys the balanced producer can give a player identifier
KeySpace(playerID) == {ShardedKey(playerID, k) : k \in 0..(shards - 1)}

\* C14: every record the balanced producer hands to the transport has the
\* key <player_id of the record>#shard=<k> with 0 <= k < shards, so the keys
\* of one player identifier lie in a set of at most `shards` keys
C14_ShardedKeyForm ==
    prog = "balanced"
        => \A m \in Handed :
              /\ Len(m.key) = Len(m.player) + 2
              /\ SubSeq(m.key, 1, Len(m.player)) = m.player
              /\ m.key[Len(m.player) + 1] = "#shard="
              /\ m.key[Len(m.player) + 2] \in 0..(shards - 1)
              /\ m.key \in KeySpace(m.player)
              /\ Cardinality(KeySpace(m.player)) <= shards

\* a VIP record with the highest shard index is in the transport's input
C14_Witness ==
    /\ prog = "balanced"
    /\ \E m \in Handed : m.player = VIP /\ m.key = ShardedKey(VIP, shards - 1)

\* C15: in the skewed producer the key of every record is its player_id;
\* with skewPercent = 100 every record carries the VIP identifier, with
\* skewPercent = 0 no record is built through the VIP branch
C15_SkewedKeyAndEdges ==
    prog = "producer"
        => \A m \in Built :
              /\ m.key = m.player
              /\ (skewPercent = 100 => m.key = VIP /\ m.vip)
              /\ (skewPercent = 0 => ~m.vip)

\* with skewPercent = 100 a second VIP record has been handed over and a
\* third one is in hand
C15_Witness ==
    /\ prog = "producer" /\ skewPercent = 100
    /\ i >= 2 /\ genPc = "select" /\ msg.key = VIP

\* C16: a record built without the VIP branch never carries the VIP identifier
C16_NonVipDrawIsNotVip ==
    \A m \in Built : ~m.vip => m.player # VIP

\* the ids of the records in the transport's input, in order
InputIds == [k \in 1..Len(input) |-> input[k].id]

\* C17: a tick's record gets one send attempt and is then gone from the
\* goroutine's hand; the input only changes by the transport taking its head
\* or by an accepted send appending the record in hand, and a send counts as
\* accepted exactly when its record entered the input
C17_DropIsFinal ==
    [][/\ (genPc' = "waitTick" => msg' = NoMsg)
       /\ (input' # input
             => \/ input # <<>> /\ input' = Tail(input)
                \/ /\ genPc = "select" /\ input' = Append(input, msg)
                   /\ lastSend' = "accepted")
       /\ (acceptedIds' # acceptedIds
             => input' = Append(input, msg) /\ acceptedIds' = Append(acceptedIds, msg.id))
       /\ ((genPc = "select" /\ genPc' = "waitTick" /\ lastSend' = "dropped")
             => input' = input /\ acceptedIds' = acceptedIds)]_vars

\* a record was dropped, the next tick's record was accepted
C17_Witness ==
    /\ IsProducer(prog)
    /\ lastSend = "accepted" /\ ticks = 3 /\ Len(acceptedIds) = 2
    /\ genPc = "waitTick" /\ tickerC = 0

\* C20: the sequence counter counts the accepted records: they carry the ids
\* 0, 1, 2, ... in the order they entered the input, the input holds the
\* latest of them, and the record in hand carries the counter's value, so
\* after a drop the next record has the dropped record's id
C20_IdsFollowAcceptedSends ==
    IsProducer(prog)
        => /\ acceptedIds = [k \in 1..i |-> k - 1]
           /\ Len(input) <= Len(acceptedIds)
           /\ InputIds = SubSeq(acceptedIds, Len(acceptedIds) - Len(input) + 1,
                                Len(acceptedIds))
           /\ (genPc = "select" => msg.id = i)

\* after an accepted and a dropped record, the record in hand reuses the id
C20_Witness ==
    /\ IsProducer(prog)
    /\ acceptedIds = <<0>> /\ lastSend = "dropped"
    /\ genPc = "select" /\ msg.id = 1

\* the deliveries of partition p whose handling is over
Handled(p) ==
    IF InHand(p) THEN SubSeq(received[p], 1, Len(received[p]) - 1) ELSE received[p]

\* C18: the consumption loop keeps no state between records: the
\* acknowledgments of a partition are its deliveries, one for one and in the
\* order of delivery, whether or not an offset was delivered before; and what
\* the loop does with a record (work, sampled log, acknowledgment) depends on
\* that record alone, so the records after a duplicate are handled as ever
C18_EveryDeliveryAckedOnce ==
    \A p \in Partitions :
        /\ marked[p] = Handled(p)
        /\ IsPrefix(Handled(p), worked[p])
        /\ IsPrefix(worked[p], received[p])
        /\ IsPrefix(SelectSeq(Handled(p), IsSampleOffset), sampled[p])
        /\ IsPrefix(sampled[p], SelectSeq(received[p], IsSampleOffset))

\* an offset was delivered and acknowledged twice, and a later record of the
\* partition was acknowledged after the duplicate
C18_Witness ==
    \E p \in Partitions : \E k \in 1..(Len(marked[p]) - 2) :
        /\ marked[p][k] = marked[p][k + 1]
        /\ marked[p][k + 2] > marked[p][k + 1]
        /\ marked[p] = received[p]

\* C19: the loop logs a record exactly when its offset is a multiple of the
\* sampling interval (500, the only interval the consumer has): the logged
\* offsets of a partition are the multiples of 500 among the worked ones, in
\* order; a record is logged only once its work is over, and by the time it
\* is acknowledged its log, if it is due one, has been written
C19_SampledExactlyOnInterval ==
    \A p \in Partitions :
        /\ IsPrefix(sampled[p], SelectSeq(worked[p], IsSampleOffset))
        /\ IsPrefix(SelectSeq(marked[p], IsSampleOffset), sampled[p])
        /\ hpc[p] # "sample" => sampled[p] = SelectSeq(worked[p], IsSampleOffset)
        /\ hpc[p] = "sample" => sampled[p] = SelectSeq(marked[p], IsSampleOffset)

\* the record at offset 500 was worked on and logged and is not yet
\* acknowledged, and the record before it went through without a log
C19_Witness ==
    \E p \in Partitions :
        /\ hpc[p] = "mark"
        /\ cur[p] = SampleEvery
        /\ sampled[p] = <<SampleEvery>>
        /\ marked[p] = <<SampleEvery - 1>>
        /\ worked[p] = <<SampleEvery - 1, SampleEvery>>

\* C21: once the consumer group exists, run leaves its select only on a
\* termination signal or on a non-nil error of the consume call: a consume
\* call that returned nil neither ends run nor is logged as a consume error
C21_NilConsumeDoesNotEndRun ==
    (prog = "consumer" /\ ~runErr /\ mainPc \notin {"start", "notify", "select"})
        => (sigTaken \/ outcome = "consumeError")

====
